---- MODULE Spec2Model ----
(***************************************************************************)
(* Model of the asset pipeline of pobbin-assets: the `assets` command of   *)
(* src/main.rs and Pipeline::{new, select, postprocess, execute} of        *)
(* src/pipeline.rs.                                                        *)
(*                                                                         *)
(* The iterators of execute are lazy: a table row is turned into a File,   *)
(* filtered and looked up only when the for loop pulls it, so the rows of  *)
(* BaseItemTypes and UniqueStashLayout are drawn when they are pulled      *)
(* (each is read exactly once).  Words and ItemVisualIdentity are read by  *)
(* index, several times, and are fixed tables.  Outcomes of the archive,   *)
(* the codec and the file system are drawn at the step that asks for them. *)
(***************************************************************************)
EXTENDS Integers, Sequences, FiniteSets, TLC

\* ------------------------------------------------------------------ bounds
MaxBases == 2
MaxUniques == 1
MaxSelectors == 2
MaxPost == 2

\* ------------------------------------------------------------ table data
None == [some |-> FALSE]
Some(v) == [some |-> TRUE, val |-> v]

\* A DatString whose UTF-16 payload does not decode.
BadText == "<invalid utf-16>"

\* String::try_from(&DatString): the decoded text, or an error.
TryFromDatString(s) == IF s = BadText THEN None ELSE Some(s)

IdGem == <<"Metadata", "Items", "Gems", "SkillGemVaalHaste">>
IdFlask == <<"Metadata", "Items", "Flasks", "FlaskLife1">>
BaseIds == {IdGem, IdFlask}

NameHandles == {"Vaal Haste", "Divine Flask", BadText}

\* The Words table (rows 0, 1, 2).
WordsTable == <<[text |-> "Vaal Haste"], [text |-> "Divine Flask"], [text |-> BadText]>>

\* The ItemVisualIdentity table (rows 0 .. 3).
VisTable ==
  << [id |-> <<"SkillGemVaalHaste">>, dds_file |-> "Art/Gems/VaalHaste.dds",
      is_alternate_art |-> FALSE],
     [id |-> <<"UniqueFlask", "1">>, dds_file |-> "Art/Flasks/Unique1.dds",
      is_alternate_art |-> FALSE],
     [id |-> <<"UniqueFlask", "1", "Alt">>, dds_file |-> "Art/Flasks/Unique1Alt.dds",
      is_alternate_art |-> TRUE],
     [id |-> <<"UniqueRing", "2">>, dds_file |-> BadText,
      is_alternate_art |-> FALSE] >>

\* slice::get(idx) of a 0-indexed table.
Get(table, idx) == IF idx + 1 \in DOMAIN table THEN Some(table[idx + 1]) ELSE None

\* Foreign keys are not checked by the tables: one past the end is a dangling key.
VisKeys == 0 .. Len(VisTable)
WordKeys == 0 .. Len(WordsTable)

BaseRows == [id : BaseIds, item_visual_identity : VisKeys, name : NameHandles]
UniqueRows == [words : WordKeys, item_visual_identity : VisKeys]

\* The four read! lines of execute, in order.
RequiredTables == <<"BaseItemTypes", "UniqueStashLayout", "Words", "ItemVisualIdentity">>

\* --------------------------------------------------------------- matchers
StartsWith(id, prefix) ==
  /\ Len(prefix) <= Len(id)
  /\ \A i \in 1 .. Len(prefix) : id[i] = prefix[i]

\* The closures handed to select and postprocess: the Kind::Unique test and the
\* flask test of main.rs.
Matchers == {"unique", "flask"}

Matches(m, f) ==
  CASE m = "unique" -> f.kind = "Unique"
    [] m = "flask" -> \/ StartsWith(f.id, <<"Metadata", "Items", "Flasks">>)
                      \/ StartsWith(f.id, <<"UniqueFlask">>)

\* The (matcher, transform) pairs handed to postprocess: the flask pair of main.rs
\* and a second closure pair.
PostPairs == {<<"flask", "flask">>, <<"unique", "crop">>}

\* --------------------------------------------------------------- the state
VARIABLES
  out_is_dir,  \* whether the output path is a directory
  disk,        \* the output directory: path -> file
  pc,          \* position in assets / execute
  selectors,   \* Pipeline.selectors
  postprocess, \* Pipeline.postprocess
  tables,      \* outcome of each read! line so far
  bases,       \* rows the bases iterator has left
  uniques,     \* rows the uniques iterator has left
  row,         \* the table row the chain is turning into a File
  item,        \* the File built from it
  vis,         \* vis.get(idx) of the current item
  name,        \* decoded name of the current item
  dds_file,    \* decoded source path of the current item
  dds,         \* the decoded image of the current item
  ppi,         \* position of the postprocess loop
  total,       \* the success counter
  events,      \* tracing events emitted by the last step
  fault,       \* why the run ended early, if it did
  written      \* history, per path: the last record written there and the one before

vars == <<out_is_dir, disk, pc, selectors, postprocess, tables, bases, uniques, row, item,
          vis, name, dds_file, dds, ppi, total, events, fault, written>>

\* The pipeline object: fixed once execute has started.
config == <<out_is_dir, selectors, postprocess>>
\* The locals of one iteration of the for loop.
locals == <<row, item, vis, name, dds_file, dds, ppi>>

\* ------------------------------------------------------------- the disk
\* self.out.join(format!("{name}.webp"))
OutPath(n) == "out/" \o n \o ".webp"

Paths == {OutPath(n) : n \in NameHandles \ {BadText}}

Absent == [exists |-> FALSE]
FileOf(bytes) == [exists |-> TRUE, bytes |-> bytes]

\* A file left in the output directory by an earlier run.
Stale == FileOf(<<"stale">>)

\* image::Dds::try_from(bytes): the decoded image of the file at a path.
Decoded(path) == [src |-> path, ops |-> <<>>]

\* A postprocess closure acting on the image.
Apply(t, image) == [image EXCEPT !.ops = Append(@, t)]

\* Image::write_blob("webp")
WriteBlob(image) == <<"webp", image.src, image.ops>>

\* Variant: the file is opened without truncation.
CreateKeep(d, path) == IF d[path].exists THEN d ELSE [d EXCEPT ![path] = FileOf(<<>>)]

\* std::fs::File::create: creates the file or truncates the one there.
Create(d, path) == [d EXCEPT ![path] = FileOf(<<>>)]

\* write_all of the whole blob, from the start of the open file.
WriteAll(d, path, blob) ==
  [d EXCEPT ![path] =
     FileOf(blob \o SubSeq(d[path].bytes, Len(blob) + 1, Len(d[path].bytes)))]

\* What a failed write_all can leave behind: nothing, or part of the blob.
TornWrites(blob) == {<<>>, SubSeq(blob, 1, 1)}

\* ------------------------------------------------------------ the catalog
BaseFile(base) ==
  [kind |-> "Base", id |-> base.id,
   item_visual_identity |-> base.item_visual_identity, name |-> base.name]

\* The two expect() calls of the uniques closure: which one panics, if any.
UniquePanic(unique) ==
  IF ~Get(WordsTable, unique.words).some THEN "word for unique"
  ELSE IF ~Get(VisTable, unique.item_visual_identity).some THEN "vis for unique"
  ELSE "none"

UniqueFile(unique) ==
  [kind |-> "Unique", id |-> Get(VisTable, unique.item_visual_identity).val.id,
   item_visual_identity |-> unique.item_visual_identity,
   name |-> Get(WordsTable, unique.words).val.text]

\* Variant: all() in place of any().
SelectedByAll(sels, f) == \A i \in 1 .. Len(sels) : Matches(sels[i], f)

\* self.selectors.iter().any(|s| s.matches(f))
Selected(sels, f) == \E i \in 1 .. Len(sels) : Matches(sels[i], f)

Warn(msg, f) == [level |-> "warn", msg |-> msg, item |-> f]

NoRow == [table |-> "none"]
NoItem == [kind |-> "none"]
NoImage == [src |-> "", ops |-> <<>>]

Init ==
  /\ out_is_dir \in BOOLEAN
  /\ disk \in [Paths -> {Absent, Stale}]
  /\ pc = "start"
  /\ selectors = <<>>
  /\ postprocess = <<>>
  /\ tables = <<>>
  /\ bases = 0
  /\ uniques = 0
  /\ row = NoRow
  /\ item = NoItem
  /\ vis = None
  /\ name = ""
  /\ dds_file = ""
  /\ dds = NoImage
  /\ ppi = 0
  /\ total = 0
  /\ events = <<>>
  /\ fault = "none"
  /\ written = [p \in Paths |-> <<>>]

\* Leaving the loop body for the next record (continue, or the end of the body):
\* the locals of the iteration go out of scope.
Continue(evs) ==
  /\ pc' = "iter"
  /\ events' = evs
  /\ row' = NoRow
  /\ item' = NoItem
  /\ vis' = None
  /\ name' = ""
  /\ dds_file' = ""
  /\ dds' = NoImage
  /\ ppi' = 0

\* The error leaves execute (and assets, and main) through `?` or bail!.
Fail(why) ==
  /\ pc' = "failed"
  /\ fault' = why
  /\ events' = <<>>

\* ------------------------------------------------------------- assets
\* main.rs: the is_dir test, then Pipeline::new.
AssetsCheckOut ==
  /\ pc = "start"
  /\ IF out_is_dir
       THEN /\ pc' = "build"
            /\ UNCHANGED <<fault, events>>
       ELSE Fail("out path is not a directory")
  /\ selectors' = <<>>
  /\ postprocess' = <<>>
  /\ UNCHANGED <<out_is_dir, disk, tables, bases, uniques, locals, total, written>>

Select(matcher) ==
  /\ pc = "build"
  /\ Len(selectors) < MaxSelectors
  /\ selectors' = Append(selectors, matcher)
  /\ UNCHANGED <<out_is_dir, disk, pc, postprocess, tables, bases, uniques, locals, total,
                 events, fault, written>>

Postprocess(matcher, transform) ==
  /\ pc = "build"
  /\ Len(postprocess) < MaxPost
  /\ postprocess' = Append(postprocess, <<matcher, transform>>)
  /\ UNCHANGED <<out_is_dir, disk, pc, selectors, tables, bases, uniques, locals, total,
                 events, fault, written>>

\* ------------------------------------------------------------- execute
\* bundle.index()?
ExecuteIndex ==
  /\ pc = "build"
  /\ \E ok \in BOOLEAN :
       IF ok
         THEN pc' = "tables" /\ UNCHANGED <<fault, events>>
         ELSE Fail("index")
  /\ UNCHANGED <<config, disk, tables, bases, uniques, locals, total, written>>

\* Variant: a table that is not in the index is read as an empty one.
TableAbsentAsEmpty(table) ==
  /\ pc' = IF Len(tables') = Len(RequiredTables) THEN "iter" ELSE "tables"
  /\ UNCHANGED <<fault, events, bases, uniques>>

\* The let-else of read!: the table is not in the index.
TableAbsent(table) ==
  /\ Fail(table \o " table does not exist")
  /\ UNCHANGED <<bases, uniques>>

\* One read! line: index.read::<T>()? and the let-else on its Option.  A table
\* that is there has some number of rows.
ReadTable ==
  /\ pc = "tables"
  /\ Len(tables) < Len(RequiredTables)
  /\ \E r \in {"rows", "absent", "err"}, n \in 0 .. MaxBases, m \in 0 .. MaxUniques :
       /\ tables' = Append(tables, r)
       /\ CASE r = "rows" ->
                /\ bases' = IF RequiredTables[Len(tables')] = "BaseItemTypes"
                              THEN n ELSE bases
                /\ uniques' = IF RequiredTables[Len(tables')] = "UniqueStashLayout"
                                THEN m ELSE uniques
                /\ pc' = IF Len(tables') = Len(RequiredTables) THEN "iter" ELSE "tables"
                /\ UNCHANGED <<fault, events>>
            [] r = "absent" -> TableAbsent(RequiredTables[Len(tables')])
            [] r = "err" -> Fail("table read") /\ UNCHANGED <<bases, uniques>>
  /\ UNCHANGED <<config, disk, locals, total, written>>

\* The chain yields the next Base row as a File.
PullBase ==
  /\ pc = "iter"
  /\ bases > 0
  /\ \E base \in BaseRows :
       /\ row' = [table |-> "BaseItemTypes", fields |-> base]
       /\ item' = BaseFile(base)
  /\ bases' = bases - 1
  /\ pc' = "built"
  /\ events' = <<>>
  /\ UNCHANGED <<config, disk, tables, uniques, vis, name, dds_file, dds, ppi, total,
                 fault, written>>

\* Variant: the two iterators are interleaved.
ChainAnyTime(first_left) == first_left >= 0

\* bases.chain(uniques): the second iterator is asked once the first has nothing left.
ChainSecond(first_left) == first_left = 0

\* The chain yields the next Unique row as a File, or one of the two expect()
\* calls panics and unwinds out of execute.
PullUnique ==
  /\ pc = "iter"
  /\ ChainSecond(bases)
  /\ uniques > 0
  /\ uniques' = uniques - 1
  /\ \E unique \in UniqueRows :
       /\ row' = [table |-> "UniqueStashLayout", fields |-> unique]
       /\ IF UniquePanic(unique) = "none"
            THEN /\ item' = UniqueFile(unique)
                 /\ pc' = "built"
                 /\ UNCHANGED fault
            ELSE /\ pc' = "panicked"
                 /\ fault' = UniquePanic(unique)
                 /\ UNCHANGED item
  /\ events' = <<>>
  /\ UNCHANGED <<config, disk, tables, bases, vis, name, dds_file, dds, ppi, total,
                 written>>

\* .filter(any selector) and .map(vis.get(idx))
Filter ==
  /\ pc = "built"
  /\ IF Selected(selectors, item)
       THEN /\ pc' = "selected"
            /\ vis' = Get(VisTable, item.item_visual_identity)
            /\ events' = <<>>
            /\ UNCHANGED <<row, item, name, dds_file, dds, ppi>>
       ELSE Continue(<<>>)
  /\ UNCHANGED <<config, disk, tables, bases, uniques, total, fault, written>>

\* Variant: the alternate-art test is left out.
NeverAlternateArt(v) == FALSE

\* if vis.is_alternate_art
IsAlternateArt(v) == v.is_alternate_art

\* The let-else on vis and the alternate-art test.
ResolveVisual ==
  /\ pc = "selected"
  /\ IF ~vis.some
       THEN Continue(<<Warn("has no visual identity", item)>>)
       ELSE IF IsAlternateArt(vis.val)
         THEN Continue(<<>>)
         ELSE /\ pc' = "resolved"
              /\ events' = <<>>
              /\ UNCHANGED locals
  /\ UNCHANGED <<config, disk, tables, bases, uniques, total, fault, written>>

\* String::try_from on the name and on the dds_file.
DecodeText ==
  /\ pc = "resolved"
  /\ IF ~TryFromDatString(item.name).some
       THEN Continue(<<Warn("invalid name", item)>>)
       ELSE IF ~TryFromDatString(vis.val.dds_file).some
         THEN Continue(<<Warn("invalid dds_file", item)>>)
         ELSE /\ pc' = "text"
              /\ name' = TryFromDatString(item.name).val
              /\ dds_file' = TryFromDatString(vis.val.dds_file).val
              /\ events' = <<>>
              /\ UNCHANGED <<row, item, vis, dds, ppi>>
  /\ UNCHANGED <<config, disk, tables, bases, uniques, total, fault, written>>

\* index.read_by_name(&dds_file)? and Dds::try_from on the bytes.
FetchImage ==
  /\ pc = "text"
  /\ \E r \in {"image", "corrupt", "missing", "err"} :
       CASE r = "image" ->
              /\ pc' = "decoded"
              /\ dds' = Decoded(dds_file)
              /\ ppi' = 1
              /\ events' = <<>>
              /\ UNCHANGED <<row, item, vis, name, dds_file, fault>>
         [] r = "corrupt" ->
              Continue(<<Warn("unable to read dds", item)>>) /\ UNCHANGED fault
         [] r = "missing" ->
              Continue(<<Warn("dds file does not exist", item)>>) /\ UNCHANGED fault
         [] r = "err" ->
              Fail("read_by_name") /\ UNCHANGED locals
  /\ UNCHANGED <<config, disk, tables, bases, uniques, total, written>>

\* Variant: the transform is applied without asking its matcher.
PairAppliesAlways(pair, f) == TRUE

\* if m.matches(&item)
PairApplies(pair, f) == Matches(pair[1], f)

\* Variant: a failed transform skips the record with a warning.
TransformErrorSkips ==
  /\ Continue(<<Warn("postprocess failed", item)>>)
  /\ UNCHANGED fault

\* pp.postprocess(&mut dds)? when the transform returns Err.
TransformError ==
  /\ Fail("postprocess")
  /\ UNCHANGED locals

\* One turn of the loop over self.postprocess.
PostprocessStep ==
  /\ pc = "decoded"
  /\ ppi <= Len(postprocess)
  /\ IF PairApplies(postprocess[ppi], item)
       THEN \E ok \in BOOLEAN :
              IF ok
                THEN /\ dds' = Apply(postprocess[ppi][2], dds)
                     /\ ppi' = ppi + 1
                     /\ UNCHANGED <<pc, fault, events, row, item, vis, name, dds_file>>
                ELSE TransformError
       ELSE /\ ppi' = ppi + 1
            /\ UNCHANGED <<pc, fault, events, row, item, vis, name, dds_file, dds>>
  /\ UNCHANGED <<config, disk, tables, bases, uniques, total, written>>

\* std::fs::File::create(&out)?
CreateFile ==
  /\ pc = "decoded"
  /\ ppi > Len(postprocess)
  /\ \E ok \in BOOLEAN :
       IF ok
         THEN /\ disk' = Create(disk, OutPath(name))
              /\ pc' = "created"
              /\ UNCHANGED <<fault, events>>
         ELSE Fail("create") /\ UNCHANGED disk
  /\ UNCHANGED <<config, tables, bases, uniques, locals, total, written>>

LastTwo(seq) == IF Len(seq) <= 2 THEN seq ELSE SubSeq(seq, Len(seq) - 1, Len(seq))

\* out.write_all(&dds.write_blob("webp")?)?, the debug line and total += 1.
EncodeAndWrite ==
  /\ pc = "created"
  /\ \E r \in {"ok", "encode", "write"} :
       CASE r = "ok" ->
              /\ disk' = WriteAll(disk, OutPath(name), WriteBlob(dds))
              /\ total' = total + 1
              /\ written' = [written EXCEPT ![OutPath(name)] =
                               LastTwo(Append(@, [kind |-> item.kind,
                                                  bytes |-> WriteBlob(dds)]))]
              /\ Continue(<<[level |-> "debug", msg |-> "generated file", item |-> item]>>)
              /\ UNCHANGED fault
         [] r = "encode" ->
              /\ Fail("encode")
              /\ UNCHANGED <<disk, total, written, locals>>
         [] r = "write" ->
              /\ \E torn \in TornWrites(WriteBlob(dds)) :
                   disk' = [disk EXCEPT ![OutPath(name)] = FileOf(torn)]
              /\ Fail("write")
              /\ UNCHANGED <<total, written, locals>>
  /\ UNCHANGED <<config, tables, bases, uniques>>

\* The chain is exhausted: the info line with the total, and Ok(()).
Finish ==
  /\ pc = "iter"
  /\ bases = 0
  /\ uniques = 0
  /\ pc' = "done"
  /\ events' = <<[level |-> "info", msg |-> "extracted a total of", total |-> total]>>
  /\ UNCHANGED <<config, disk, tables, bases, uniques, locals, total, fault, written>>

Next ==
  \/ AssetsCheckOut
  \/ \E m \in Matchers : Select(m)
  \/ \E p \in PostPairs : Postprocess(p[1], p[2])
  \/ ExecuteIndex
  \/ ReadTable
  \/ PullBase
  \/ PullUnique
  \/ Filter
  \/ ResolveVisual
  \/ DecodeText
  \/ FetchImage
  \/ PostprocessStep
  \/ CreateFile
  \/ EncodeAndWrite
  \/ Finish

Spec == Init /\ [][Next]_vars

\* ================================================================ claims
\* The loop body of execute, between pulling a record and leaving it.
RecordStages == {"built", "selected", "resolved", "text", "decoded", "created"}

\* Nothing in the output directory has been created or overwritten by this run.
DiskUntouched == \A p \in Paths : disk[p] \in {Absent, Stale} /\ written[p] = <<>>

AnySelectorAccepts(f) == \E i \in 1 .. Len(selectors) : Matches(selectors[i], f)

\* C1: a built record goes on to visual resolution iff at least one registered
\* selector accepts it, and is otherwise dropped without any effect; with no
\* selector registered nothing is selected and nothing is written; a record is
\* pulled once and counted at most once, however many selectors accept it.
C1_SelectedIffAnySelector ==
  /\ [](selectors = <<>> /\ pc # "start" =>
          /\ pc \notin (RecordStages \ {"built"})
          /\ total = 0
          /\ DiskUntouched)
  /\ [](pc \in (RecordStages \ {"built"}) => AnySelectorAccepts(item))
  /\ [][pc = "built" =>
          /\ (pc' = "selected") <=> AnySelectorAccepts(item)
          /\ pc' # "selected" => pc' = "iter" /\ disk' = disk /\ total' = total]_vars
  /\ [][item' # item /\ item' # NoItem =>
          item = NoItem /\ bases' + uniques' = bases + uniques - 1]_vars
  /\ [][total' # total => total' = total + 1 /\ item # NoItem /\ item' = NoItem]_vars

\* C1 witness: a record accepted by two different selectors has been selected.
C1_Witness ==
  /\ pc = "selected"
  /\ \E i, j \in 1 .. Len(selectors) :
       /\ selectors[i] # selectors[j]
       /\ Matches(selectors[i], item)
       /\ Matches(selectors[j], item)

\* C2: a record whose visual-identity row is alternate art never gets past
\* visual resolution: it is dropped with no warning, no file touched and the
\* counter unchanged, whatever the selectors say.
C2_AlternateArtNeverWritten ==
  /\ [](pc \in {"resolved", "text", "decoded", "created"} =>
          /\ Get(VisTable, item.item_visual_identity).some
          /\ ~Get(VisTable, item.item_visual_identity).val.is_alternate_art)
  /\ [][(/\ pc = "selected"
         /\ Get(VisTable, item.item_visual_identity).some
         /\ Get(VisTable, item.item_visual_identity).val.is_alternate_art) =>
          /\ pc' = "iter"
          /\ events' = <<>>
          /\ disk' = disk
          /\ total' = total
          /\ written' = written]_vars

\* C2 witness: an alternate-art record that every registered selector accepts
\* has been selected.
C2_Witness ==
  /\ pc = "selected"
  /\ vis.some
  /\ vis.val.is_alternate_art
  /\ Len(selectors) = MaxSelectors
  /\ \E i, j \in 1 .. Len(selectors) : selectors[i] # selectors[j]
  /\ \A i \in 1 .. Len(selectors) : Matches(selectors[i], item)

\* A Unique row one of whose two keys has no row in its table.
DanglingUnique(r) ==
  /\ r.table = "UniqueStashLayout"
  /\ \/ ~Get(WordsTable, r.fields.words).some
     \/ ~Get(VisTable, r.fields.item_visual_identity).some

\* C3: a Unique row whose word index or visual-identity reference has no row is
\* skipped with a diagnostic and the run goes on: the run never ends on it.
C3_DanglingUniqueIsSkipped ==
  DanglingUnique(row) => pc \notin {"panicked", "failed"}

\* The step on which a transform that applies to the record returns an error:
\* the postprocess loop is left before its last pair was visited.
TransformFaultStep ==
  /\ pc = "decoded"
  /\ ppi <= Len(postprocess)
  /\ pc' # "decoded"

\* C4 as stated: a transform error abandons only the record, and the pipeline
\* carries on with the next one.
C4_TransformFaultSkipsRecord ==
  [][TransformFaultStep => pc' = "iter" /\ disk' = disk /\ total' = total]_vars

\* C4 amended: a transform error ends the whole run at once: execute returns
\* the error, no file is created or written for the record, the counter and
\* the earlier files stay as they are, and no later record is processed.
C4_TransformFaultAbortsRun ==
  /\ [][TransformFaultStep =>
          /\ pc' = "failed"
          /\ fault' = "postprocess"
          /\ disk' = disk
          /\ total' = total
          /\ written' = written
          /\ bases' = bases
          /\ uniques' = uniques]_vars
  /\ [][pc = "failed" => FALSE]_vars

\* C4 witness: the run has ended on a transform error with an earlier record's
\* file on disk and records left in the catalog.
C4_Witness ==
  /\ pc = "failed"
  /\ fault = "postprocess"
  /\ bases + uniques > 0
  /\ \E p \in Paths : written[p] # <<>> /\ disk[p] = FileOf(written[p][Len(written[p])].bytes)

\* C5: once the tables are read and records are being processed, the only fault
\* that ends the run is an image-encode fault; every other fault skips a record.
C5_OnlyEncodeEndsTheRun ==
  (/\ pc \in {"failed", "panicked"}
   /\ Len(tables) = Len(RequiredTables)
   /\ \A i \in DOMAIN tables : tables[i] = "rows")
  => fault = "encode"

\* The transforms of the first k pairs whose own matcher accepts f, in
\* registration order.
RECURSIVE MatchingOps(_, _, _)
MatchingOps(pp, f, k) ==
  IF k = 0 THEN <<>>
  ELSE IF Matches(pp[k][1], f)
    THEN Append(MatchingOps(pp, f, k - 1), pp[k][2])
    ELSE MatchingOps(pp, f, k - 1)

\* C6: the image of a record carries exactly the transforms of the pairs whose
\* own matcher accepts the record, each once, in registration order: of the
\* pairs visited so far while the loop runs, of all pairs when the file is
\* created; which selector accepted the record plays no part.
C6_TransformsInRegistrationOrder ==
  /\ pc = "decoded" =>
       dds = [src |-> dds_file, ops |-> MatchingOps(postprocess, item, ppi - 1)]
  /\ pc = "created" =>
       dds = [src |-> dds_file, ops |-> MatchingOps(postprocess, item, Len(postprocess))]

\* C6 witness: a record selected by the Kind::Unique selector alone reaches the
\* file with two different transforms applied, the flask pair's among them.
C6_Witness ==
  /\ pc = "created"
  /\ selectors = <<"unique">>
  /\ postprocess = <<<<"unique", "crop">>, <<"flask", "flask">>>>
  /\ dds.ops = <<"crop", "flask">>

\* C7: Unique records come only after every Base record, one record at a time;
\* a path written twice was never written by a Unique record first and a Base
\* record second; after a completed run each written path holds the bytes of
\* the last record written there.
C7_CatalogOrderLastWriteWins ==
  /\ row # NoRow /\ row.table = "UniqueStashLayout" => bases = 0
  /\ pc = "iter" => row = NoRow /\ item = NoItem
  /\ \A p \in Paths :
       /\ Len(written[p]) = 2 =>
            ~(written[p][1].kind = "Unique" /\ written[p][2].kind = "Base")
       /\ pc = "done" /\ written[p] # <<>> =>
            disk[p] = FileOf(written[p][Len(written[p])].bytes)

\* C7 witness: a completed run in which a Base record and then a Unique record
\* of the same name were written with different bytes.
C7_Witness ==
  /\ pc = "done"
  /\ \E p \in Paths :
       /\ Len(written[p]) = 2
       /\ written[p][1].kind = "Base"
       /\ written[p][2].kind = "Unique"
       /\ written[p][1].bytes # written[p][2].bytes
       /\ disk[p] = FileOf(written[p][2].bytes)

\* C8: a setup fault fails the call with nothing processed and nothing written:
\* a bad output path before the pipeline is built, an index or table fault
\* before the first record; records are examined only with all four tables read.
C8_SetupFaultsFailBeforeRecords ==
  /\ ~out_is_dir /\ pc # "start" =>
       /\ pc = "failed"
       /\ fault = "out path is not a directory"
       /\ selectors = <<>> /\ postprocess = <<>> /\ tables = <<>>
       /\ row = NoRow /\ total = 0 /\ DiskUntouched
  /\ \A i \in DOMAIN tables :
       tables[i] # "rows" =>
         /\ pc = "failed"
         /\ i = Len(tables)
         /\ fault = IF tables[i] = "absent"
                      THEN RequiredTables[i] \o " table does not exist"
                      ELSE "table read"
         /\ row = NoRow /\ total = 0 /\ DiskUntouched
  /\ fault = "index" => pc = "failed" /\ tables = <<>> /\ row = NoRow /\ DiskUntouched
  /\ pc \in RecordStages \cup {"iter", "done", "panicked"} =>
       /\ out_is_dir
       /\ Len(tables) = Len(RequiredTables)
       /\ \A i \in DOMAIN tables : tables[i] = "rows"

\* C8 witness: selectors are registered, three tables were read and the last
\* required table is absent.
C8_Witness ==
  /\ pc = "failed"
  /\ Len(selectors) > 0
  /\ Len(tables) = Len(RequiredTables)
  /\ tables[Len(tables)] = "absent"

\* C9: a selected record, Base or Unique, whose visual_identity_ref has no row
\* is skipped with one warning and the run goes on: the run never ends on it.
C9_MissingVisualIsSkipped ==
  (/\ row # NoRow
   /\ ~Get(VisTable, row.fields.item_visual_identity).some
   /\ row.table = "UniqueStashLayout" =>
        /\ Get(WordsTable, row.fields.words).some
        /\ \E i \in 1 .. Len(selectors) : selectors[i] = "unique")
  => /\ pc \in {"built", "selected"}
     /\ fault = "none"

\* C10: the file is created empty before the image is encoded, so an encode
\* fault ends the run with that path empty, the counter and every other file
\* as they were, and no total reported.
C10_EncodeFaultLeavesEmptyFile ==
  /\ [](pc = "created" => disk[OutPath(name)] = FileOf(<<>>))
  /\ [](fault = "encode" =>
          /\ pc = "failed"
          /\ disk[OutPath(name)] = FileOf(<<>>)
          /\ events = <<>>
          /\ \A p \in Paths \ {OutPath(name)} :
               written[p] # <<>> => disk[p] = FileOf(written[p][Len(written[p])].bytes))
  /\ [][fault' = "encode" /\ fault # "encode" =>
          disk' = disk /\ total' = total /\ written' = written]_vars
  /\ [][pc = "decoded" /\ pc' = "created" =>
          /\ total' = total
          /\ \A p \in Paths \ {OutPath(name)} : disk'[p] = disk[p]]_vars

\* C10 witness: the encode fault hit a record whose name was already written in
\* this run, while a file of another name written earlier is still there.
C10_Witness ==
  /\ fault = "encode"
  /\ written[OutPath(name)] # <<>>
  /\ \E p \in Paths \ {OutPath(name)} : written[p] # <<>>

====
